---- MODULE Spec2Model ----
(***************************************************************************)
(* State-machine model of the inference server ai/src/inference/app.py:    *)
(* the process-wide `model` global, the startup hook that loads it, and    *)
(* the three routes GET /ping, POST /invocations and GET /.                *)
(* The held model is the RandomForestClassifier that the training script   *)
(* ai/src/sagemaker/train_script.py dumps to model.joblib; it is modelled  *)
(* as a forest of decision stumps that vote on a class.                    *)
(***************************************************************************)
EXTENDS Integers, Sequences, FiniteSets, TLC

\* ------------------------------------------------------------------ bounds
\* expected input dimensionality of the trained classifier
NFeatures == 2
\* number of classes the classifier was fitted on
NClasses == 2
\* number of trees of the forest (--n-estimators)
NEstimators == 2
\* cap of the counter of failed requests
MaxFailed == 2

\* feature vectors of a request are at most one longer than the model expects
MaxLen == NFeatures + 1
FeatVals == {0, 1}
Classes == 0 .. (NClasses - 1)

\* ------------------------------------------------------- the model artifact
None == [kind |-> "None"]
Missing == [kind |-> "missing"]
Corrupt == [kind |-> "corrupt"]

\* one fitted tree: tests one feature and votes for a class
Stumps == [feat : 1 .. NFeatures, lo : Classes, hi : Classes]

\* the fitted forests considered: tree i splits on feature ((i - 1) % NFeatures) + 1
Estimators ==
  {e \in [1 .. NEstimators -> Stumps] :
     \A i \in 1 .. NEstimators : e[i].feat = ((i - 1) % NFeatures) + 1}

\* the classifiers train_model can return and save_model can dump
Forests ==
  [kind : {"RandomForestClassifier"},
   n_features_in_ : {NFeatures},
   classes_ : {[i \in 1 .. NClasses |-> i - 1]},
   estimators_ : Estimators]

\* what can be found at /opt/ml/model/model.joblib when the process starts
Artifacts == {Missing, Corrupt} \cup Forests

\* --------------------------------------------------------------- requests
FeatureVectors == UNION {[1 .. n -> FeatVals] : n \in 0 .. MaxLen}

\* a JSON body either parses as a PredictionRequest or does not
Bodies ==
  [valid : {TRUE}, features : FeatureVectors] \cup {[valid |-> FALSE, features |-> <<>>]}

NoBody == [valid |-> TRUE, features |-> <<>>]
NoRequest == [method |-> "", path |-> "", body |-> NoBody]
NoResponse == [status |-> 0, body |-> [detail |-> ""]]

VARIABLES artifact, model, phase, loads, req, resp, calls, failed

\* the requests being handled concurrently, one record per handler
VARIABLES inflight

\* bedrock_example.py: the caller's history list, what the last call of
\* converse_with_history returned, and the calls that succeeded and failed
VARIABLES conversation, chatRet, okCalls, failedCalls

\* examples/sagemaker/inference.py, delete_endpoint: the endpoints and the
\* endpoint configurations of the account, and the call in progress
VARIABLES endpoints, configs, del

\* examples/bedrock/bedrock_examples.py, invoke_model_with_streaming: the
\* response of the service, the position of the generator in its event
\* stream, and the texts yielded so far
VARIABLES response, streamPos, yielded

\* examples/sagemaker/inference.py, invoke_endpoint: the caller's data, the
\* Body sent last, the calls made and the endpoint invocations made
VARIABLES smData, smBody, smCalls, invocations

\* ai/src/sagemaker/train_script.py: the directories and input files of the
\* run, the position of the script, the accuracies it measured, and the two
\* output files
VARIABLES trainEnv, trainPc, metrics, metricsFile, modelFile

serverVars == <<artifact, model, phase, loads, req, resp, calls, failed>>
chatVars == <<conversation, chatRet, okCalls, failedCalls>>
endpointVars == <<endpoints, configs, del>>
streamVars == <<response, streamPos, yielded>>
invokeVars == <<smData, smBody, smCalls, invocations>>
trainVars == <<trainEnv, trainPc, metrics, metricsFile, modelFile>>

\* the state outside the inference application
outsideApp == <<chatVars, endpointVars, streamVars, invokeVars, trainVars>>

\* the state outside the sequential server
nonServer == <<inflight, outsideApp>>

vars == <<serverVars, nonServer>>

\* ------------------------------------------------------------ raise/return
Return(v) == [raised |-> FALSE, value |-> v, msg |-> ""]
Raise(m) == [raised |-> TRUE, value |-> None, msg |-> m]

HTTPException(status_code, detail) == [status |-> status_code, body |-> [detail |-> detail]]
OK(body) == [status |-> 200, body |-> body]

\* ------------------------------------------------------------------ startup
\* joblib.load("/opt/ml/model/model.joblib")
joblib_load(a) ==
  IF a = Missing THEN Raise("No such file or directory")
  ELSE IF a = Corrupt THEN Raise("unpickling error")
  ELSE Return(a)

\* load_model with the try/except removed: the failure leaves the hook
load_model_uncaught(m, a) ==
  LET r == joblib_load(a)
  IN  IF r.raised THEN [model |-> m, exited |-> TRUE]
      ELSE [model |-> r.value, exited |-> FALSE]

\* the startup hook: the global after it, and whether an exception left it
load_model(m, a) ==
  LET r == joblib_load(a)
  IN  IF r.raised THEN [model |-> m, exited |-> FALSE]
      ELSE [model |-> r.value, exited |-> FALSE]

\* ------------------------------------------------ numpy and the classifier
\* reshape(-1, 1) in place of reshape(1, -1): one row per feature
reshape_column(features) == [i \in 1 .. Len(features) |-> <<features[i]>>]

\* np.array(features).reshape(1, -1): a matrix with the vector as its only row
reshape(features) == <<features>>

RECURSIVE SumSeq(_)
SumSeq(s) == IF s = <<>> THEN 0 ELSE Head(s) + SumSeq(Tail(s))

\* np.argmax: the first position that holds the largest entry
argmax(p) ==
  CHOOSE i \in 1 .. Len(p) :
    /\ \A j \in 1 .. Len(p) : p[j] <= p[i]
    /\ \A j \in 1 .. (i - 1) : p[j] < p[i]

\* the class one tree votes for on the row x
tree_predict(t, x) == IF x[t.feat] = 0 THEN t.lo ELSE t.hi

\* the forest's class probabilities of one row: the share of the trees voting
\* for each class, in units of 1 / n_estimators
row_proba(m, x) ==
  [c \in 1 .. Len(m.classes_) |->
     Cardinality({i \in 1 .. Len(m.estimators_) :
                    tree_predict(m.estimators_[i], x) = m.classes_[c]})]

\* sklearn's input validation: at least one row, no row without features,
\* and every row has n_features_in_ entries
shape_ok(m, X) ==
  /\ Len(X) >= 1
  /\ \A i \in 1 .. Len(X) : Len(X[i]) >= 1 /\ Len(X[i]) = m.n_features_in_

\* model.predict_proba(X): one probability vector per row of X
model_predict_proba(m, X) ==
  IF ~shape_ok(m, X) THEN Raise("X has a different number of features than expected")
  ELSE Return([i \in 1 .. Len(X) |-> row_proba(m, X[i])])

\* model.predict(X): one label per row of X, the class of highest probability
model_predict(m, X) ==
  IF ~shape_ok(m, X) THEN Raise("X has a different number of features than expected")
  ELSE Return([i \in 1 .. Len(X) |-> m.classes_[argmax(row_proba(m, X[i]))]])

\* int(label) of an integer class label
int(v) == v

\* only the probability of the most likely class in place of the whole row
tolist_top(a) == <<a[argmax(a)]>>

\* ndarray.tolist(): the entries in order
tolist(a) == [i \in 1 .. Len(a) |-> a[i]]

\* a handler that is handling no request
Idle == [pc |-> "idle", path |-> "", body |-> NoBody, prediction |-> 0, resp |-> NoResponse]

\* the handlers that can run at the same time
Handlers == {"h1", "h2"}

\* one call made on the held model: the method and the number of input rows
Call(fn, X) == [fn |-> fn, rows |-> Len(X)]

PredictionResponse(prediction, probability) ==
  [prediction |-> prediction, probability |-> probability]

\* ----------------------------------------------------------------- handlers
\* health_check answering with another status code when the holder is empty
health_check_500(m) ==
  IF m = None THEN HTTPException(500, "Model not loaded")
  ELSE OK([status |-> "healthy"])

\* health_check without the test of the holder
health_check_always(m) == OK([status |-> "healthy"])

\* GET /ping
health_check(m) ==
  IF m = None THEN HTTPException(503, "Model not loaded")
  ELSE OK([status |-> "healthy"])

\* predict with the test of the holder left out: the call on None raises
\* inside the try block
predict_unchecked(m, request) ==
  LET features == reshape(request.features)
      p == IF m = None THEN Raise("'NoneType' object has no attribute 'predict'")
           ELSE model_predict(m, features)
      q == model_predict_proba(m, features)
  IN  IF p.raised
      THEN [resp |-> HTTPException(400, "Prediction error: " \o p.msg),
            calls |-> <<Call("predict", features)>>]
      ELSE [resp |-> OK(PredictionResponse(int(p.value[1]), tolist(q.value[1]))),
            calls |-> <<Call("predict", features), Call("predict_proba", features)>>]

\* predict without the try/except: the model's exception leaves the handler
\* and the framework answers with its internal-error response
predict_uncaught(m, request) ==
  IF m = None THEN [resp |-> HTTPException(503, "Model not loaded"), calls |-> <<>>]
  ELSE
    LET features == reshape(request.features)
        p == model_predict(m, features)
        q == model_predict_proba(m, features)
    IN  IF p.raised
        THEN [resp |-> HTTPException(500, "Internal Server Error"),
              calls |-> <<Call("predict", features)>>]
        ELSE [resp |-> OK(PredictionResponse(int(p.value[1]), tolist(q.value[1]))),
              calls |-> <<Call("predict", features), Call("predict_proba", features)>>]

\* predict calling the model a second time after a failed call
predict_retry(m, request) ==
  IF m = None THEN [resp |-> HTTPException(503, "Model not loaded"), calls |-> <<>>]
  ELSE
    LET features == reshape(request.features)
        p == model_predict(m, features)
        q == model_predict_proba(m, features)
    IN  IF p.raised
        THEN [resp |-> HTTPException(400, "Prediction error: " \o p.msg),
              calls |-> <<Call("predict", features), Call("predict", features)>>]
        ELSE [resp |-> OK(PredictionResponse(int(p.value[1]), tolist(q.value[1]))),
              calls |-> <<Call("predict", features), Call("predict_proba", features)>>]

\* predict answering with a default prediction when the model call fails
predict_default(m, request) ==
  IF m = None THEN [resp |-> HTTPException(503, "Model not loaded"), calls |-> <<>>]
  ELSE
    LET features == reshape(request.features)
        p == model_predict(m, features)
        q == model_predict_proba(m, features)
    IN  IF p.raised
        THEN [resp |-> OK(PredictionResponse(0, <<>>)),
              calls |-> <<Call("predict", features)>>]
        ELSE [resp |-> OK(PredictionResponse(int(p.value[1]), tolist(q.value[1]))),
              calls |-> <<Call("predict", features), Call("predict_proba", features)>>]

\* POST /invocations: the response and the calls made on the model, in order
predict(m, request) ==
  IF m = None THEN [resp |-> HTTPException(503, "Model not loaded"), calls |-> <<>>]
  ELSE
    LET features == reshape(request.features)
        p == model_predict(m, features)
        q == model_predict_proba(m, features)
    IN  IF p.raised
        THEN [resp |-> HTTPException(400, "Prediction error: " \o p.msg),
              calls |-> <<Call("predict", features)>>]
        ELSE IF q.raised
        THEN [resp |-> HTTPException(400, "Prediction error: " \o q.msg),
              calls |-> <<Call("predict", features), Call("predict_proba", features)>>]
        ELSE [resp |-> OK(PredictionResponse(int(p.value[1]), tolist(q.value[1]))),
              calls |-> <<Call("predict", features), Call("predict_proba", features)>>]

\* root answering only when a model is held
root_guarded ==
  IF model = None THEN HTTPException(503, "Model not loaded")
  ELSE OK([message |-> "SageMaker Inference API", docs |-> "/docs"])

\* GET /
root == OK([message |-> "SageMaker Inference API", docs |-> "/docs"])

\* the framework parses the body into a PredictionRequest before predict runs
ParseRequest(body) ==
  IF body.valid THEN Return([features |-> body.features])
  ELSE Raise("validation error")

IsError(r) == r.status >= 400

Bump(r) == IF IsError(r) /\ failed < MaxFailed THEN failed + 1 ELSE failed

\* nothing returned yet by converse_with_history
NoReturn == [raised |-> FALSE, text |-> "", messages |-> <<>>]

\* the conversation before the first call: conversation = []
ChatRest ==
  /\ conversation = <<>>
  /\ chatRet = NoReturn
  /\ okCalls = 0
  /\ failedCalls = 0

\* no call of delete_endpoint in progress
NoDelete == [pc |-> "idle", name |-> "", config0 |-> "", endpoint_config |-> "", failedAt |-> ""]

NoEndpoint == [status |-> "absent", config |-> ""]

EndpointNames == {"ep-a", "ep-b"}
ConfigNames == {"cfg-a", "cfg-b"}

\* an account without endpoints
EndpointRest ==
  /\ endpoints = [e \in EndpointNames |-> NoEndpoint]
  /\ configs = {}
  /\ del = NoDelete

\* a response without body
NoStream == [body |-> FALSE, events |-> <<>>]

\* invoke_model_with_streaming not called
StreamRest ==
  /\ response = NoStream
  /\ streamPos = 1
  /\ yielded = <<>>

\* data that is not a numpy array: passed on as the payload
RawData(text) == [kind |-> "str", ndim |-> 0, rows |-> <<>>, text |-> text]

\* invoke_endpoint not called
InvokeRest ==
  /\ smData = RawData("")
  /\ smBody = ""
  /\ smCalls = 0
  /\ invocations = 0

NoMetrics == [train_accuracy |-> 0, test_accuracy |-> 0]

\* a container in which every file and directory of the run is in place
FullEnv == [train_csv |-> TRUE, test_csv |-> TRUE, output_dir |-> TRUE, model_dir |-> TRUE]

\* the training script not started
TrainRest ==
  /\ trainEnv = FullEnv
  /\ trainPc = [at |-> "start", failedAt |-> ""]
  /\ metrics = NoMetrics
  /\ metricsFile = "absent"
  /\ modelFile = "absent"

\* the other components at rest
InitNonServer ==
  /\ inflight = [h \in Handlers |-> Idle]
  /\ ChatRest
  /\ EndpointRest
  /\ StreamRest
  /\ InvokeRest
  /\ TrainRest

\* the inference server not started, for the runs of the other programs
ServerRest ==
  /\ artifact = Missing
  /\ model = None
  /\ phase = "created"
  /\ loads = 0
  /\ req = NoRequest
  /\ resp = NoResponse
  /\ calls = <<>>
  /\ failed = 0
  /\ inflight = [h \in Handlers |-> Idle]

InitServer ==
  /\ artifact \in Artifacts
  /\ model = None
  /\ phase = "created"
  /\ loads = 0
  /\ req = NoRequest
  /\ resp = NoResponse
  /\ calls = <<>>
  /\ failed = 0

Init == InitServer /\ InitNonServer

\* the startup event: load_model runs once, then the server accepts requests
Startup ==
  /\ phase = "created"
  /\ LET o == load_model(model, artifact)
     IN  /\ model' = o.model
         /\ phase' = IF o.exited THEN "exited" ELSE "serving"
  /\ loads' = loads + 1
  /\ UNCHANGED <<artifact, req, resp, calls, failed>>
  /\ UNCHANGED nonServer

\* GET /ping
Ping ==
  /\ phase = "serving"
  /\ req' = [method |-> "GET", path |-> "/ping", body |-> NoBody]
  /\ resp' = health_check(model)
  /\ calls' = <<>>
  /\ failed' = Bump(resp')
  /\ UNCHANGED <<artifact, model, phase, loads>>
  /\ UNCHANGED nonServer

\* Invocations with a handler that empties the holder when it fails
Invocations_reset ==
  /\ phase = "serving"
  /\ \E body \in Bodies :
       LET parsed == ParseRequest(body)
           o == predict(model, parsed.value)
       IN  /\ req' = [method |-> "POST", path |-> "/invocations", body |-> body]
           /\ resp' = IF parsed.raised THEN HTTPException(422, parsed.msg) ELSE o.resp
           /\ calls' = IF parsed.raised THEN <<>> ELSE o.calls
  /\ failed' = Bump(resp')
  /\ model' = IF IsError(resp') THEN None ELSE model
  /\ UNCHANGED <<artifact, phase, loads>>
  /\ UNCHANGED nonServer

\* Invocations where a failed request takes the process down
Invocations_fatal ==
  /\ phase = "serving"
  /\ \E body \in Bodies :
       LET parsed == ParseRequest(body)
           o == predict(model, parsed.value)
       IN  /\ req' = [method |-> "POST", path |-> "/invocations", body |-> body]
           /\ resp' = IF parsed.raised THEN HTTPException(422, parsed.msg) ELSE o.resp
           /\ calls' = IF parsed.raised THEN <<>> ELSE o.calls
  /\ failed' = Bump(resp')
  /\ phase' = IF IsError(resp') THEN "exited" ELSE phase
  /\ UNCHANGED <<artifact, model, loads>>
  /\ UNCHANGED nonServer

\* Invocations answering a repeated POST with the response kept from the
\* previous one
Invocations_cached ==
  /\ phase = "serving"
  /\ \E body \in Bodies :
       LET parsed == ParseRequest(body)
           o == predict(model, parsed.value)
       IN  /\ req' = [method |-> "POST", path |-> "/invocations", body |-> body]
           /\ resp' = IF parsed.raised THEN HTTPException(422, parsed.msg)
                      ELSE IF req.path = "/invocations" THEN resp
                      ELSE o.resp
           /\ calls' = IF parsed.raised THEN <<>> ELSE o.calls
  /\ failed' = Bump(resp')
  /\ UNCHANGED <<artifact, model, phase, loads>>
  /\ UNCHANGED nonServer

\* POST /invocations: the body is parsed, then predict answers
Invocations ==
  /\ phase = "serving"
  /\ \E body \in Bodies :
       LET parsed == ParseRequest(body)
           o == predict(model, parsed.value)
       IN  /\ req' = [method |-> "POST", path |-> "/invocations", body |-> body]
           /\ resp' = IF parsed.raised THEN HTTPException(422, parsed.msg) ELSE o.resp
           /\ calls' = IF parsed.raised THEN <<>> ELSE o.calls
  /\ failed' = Bump(resp')
  /\ UNCHANGED <<artifact, model, phase, loads>>
  /\ UNCHANGED nonServer

\* GET /
Root ==
  /\ phase = "serving"
  /\ req' = [method |-> "GET", path |-> "/", body |-> NoBody]
  /\ resp' = root
  /\ calls' = <<>>
  /\ failed' = Bump(resp')
  /\ UNCHANGED <<artifact, model, phase, loads>>
  /\ UNCHANGED nonServer

Next == Startup \/ Ping \/ Invocations \/ Root

Spec == Init /\ [][Next]_vars

\* ------------------------------------------- requests handled concurrently
\* The same three handlers, taken one read of the holder at a time, so that
\* the steps of two requests interleave in every order.

\* the bodies sent concurrently: a malformed one, the empty vector, and the
\* constant vectors of the expected length and of one more
ConcBodies ==
  {b \in Bodies :
     \/ ~b.valid
     \/ /\ Len(b.features) \in {0, NFeatures, NFeatures + 1}
        /\ \A i, j \in 1 .. Len(b.features) : b.features[i] = b.features[j]}

\* the routes of the application
Routes == {"/ping", "/invocations", "/"}

Finish(h, r) == [inflight EXCEPT ![h].pc = "done", ![h].resp = r]

\* a request arrives at an idle handler; the framework parses its body
Receive(h) ==
  /\ phase = "serving"
  /\ inflight[h].pc = "idle"
  /\ \E path \in Routes :
       \E body \in (IF path = "/invocations" THEN ConcBodies ELSE {NoBody}) :
         LET parsed == ParseRequest(body)
             r == [Idle EXCEPT !.path = path, !.body = body]
         IN  inflight' =
               [inflight EXCEPT ![h] =
                  IF parsed.raised
                  THEN [r EXCEPT !.pc = "done", !.resp = HTTPException(422, parsed.msg)]
                  ELSE [r EXCEPT !.pc = IF path = "/" THEN "root" ELSE "check"]]
  /\ UNCHANGED <<serverVars, outsideApp>>

\* health_check and predict: the test `model is None`
CheckHolder(h) ==
  /\ inflight[h].pc = "check"
  /\ inflight' =
       IF model = None THEN Finish(h, HTTPException(503, "Model not loaded"))
       ELSE IF inflight[h].path = "/ping" THEN Finish(h, OK([status |-> "healthy"]))
       ELSE [inflight EXCEPT ![h].pc = "predict"]
  /\ UNCHANGED <<serverVars, outsideApp>>

\* StepPredict keeping the prediction in a place all handlers share
StepPredict_shared(h) ==
  /\ inflight[h].pc = "predict"
  /\ LET p == IF model = None THEN Raise("'NoneType' object has no attribute 'predict'")
              ELSE model_predict(model, reshape(inflight[h].body.features))
     IN  inflight' =
           IF p.raised THEN Finish(h, HTTPException(400, "Prediction error: " \o p.msg))
           ELSE [g \in Handlers |->
                   IF g = h
                   THEN [inflight[g] EXCEPT !.pc = "proba", !.prediction = int(p.value[1])]
                   ELSE [inflight[g] EXCEPT !.prediction = int(p.value[1])]]
  /\ UNCHANGED <<serverVars, outsideApp>>

\* predict: the call model.predict on the reshaped features
StepPredict(h) ==
  /\ inflight[h].pc = "predict"
  /\ LET p == IF model = None THEN Raise("'NoneType' object has no attribute 'predict'")
              ELSE model_predict(model, reshape(inflight[h].body.features))
     IN  inflight' =
           IF p.raised THEN Finish(h, HTTPException(400, "Prediction error: " \o p.msg))
           ELSE [inflight EXCEPT ![h].pc = "proba", ![h].prediction = int(p.value[1])]
  /\ UNCHANGED <<serverVars, outsideApp>>

\* predict: the call model.predict_proba and the response
StepProba(h) ==
  /\ inflight[h].pc = "proba"
  /\ LET q == IF model = None THEN Raise("'NoneType' object has no attribute 'predict_proba'")
              ELSE model_predict_proba(model, reshape(inflight[h].body.features))
     IN  inflight' =
           IF q.raised THEN Finish(h, HTTPException(400, "Prediction error: " \o q.msg))
           ELSE Finish(h, OK(PredictionResponse(inflight[h].prediction, tolist(q.value[1]))))
  /\ UNCHANGED <<serverVars, outsideApp>>

\* root: the static payload
StepRoot(h) ==
  /\ inflight[h].pc = "root"
  /\ inflight' = Finish(h, root)
  /\ UNCHANGED <<serverVars, outsideApp>>

\* the response is sent and the handler is free again
Respond(h) ==
  /\ inflight[h].pc = "done"
  /\ inflight' = [inflight EXCEPT ![h] = Idle]
  /\ UNCHANGED <<serverVars, outsideApp>>

Handle == \E h \in Handlers : Receive(h)
Check == \E h \in Handlers : CheckHolder(h)
CallPredict == \E h \in Handlers : StepPredict(h)
CallProba == \E h \in Handlers : StepProba(h)
CallRoot == \E h \in Handlers : StepRoot(h)
Reply == \E h \in Handlers : Respond(h)

NextConc == Startup \/ Handle \/ Check \/ CallPredict \/ CallProba \/ CallRoot \/ Reply

SpecConc == Init /\ [][NextConc]_vars

\* --------------------------------------------------- bedrock_example.py
\* cap of the number of calls of converse_with_history in one run
MaxCalls == 3

UserTexts == {"What is AWS Lambda?", "How does it compare to EC2?"}
ReplyTexts == {"reply A", "reply B"}

Message(role, text) == [role |-> role, content |-> <<[text |-> text]>>]

\* bedrock_runtime.converse: a response carrying one text block, or an error
ConverseOutcomes ==
  {Raise("ThrottlingException")} \cup
  {Return([output |-> [message |-> Message("assistant", t)]]) : t \in ReplyTexts}

\* converse_with_history that does not record the assistant reply
converse_with_history_noreply(messages, user_message, api) ==
  LET m1 == Append(messages, Message("user", user_message))
  IN  IF api.raised
      THEN [messages |-> m1, raised |-> TRUE, text |-> "", returned |-> <<>>]
      ELSE [messages |-> m1, raised |-> FALSE,
            text |-> api.value.output.message.content[1].text, returned |-> m1]

\* converse_with_history: the caller's list after the call (it is appended to
\* in place), whether the call raised, and the returned (text, messages)
converse_with_history(messages, user_message, api) ==
  LET m1 == Append(messages, Message("user", user_message))
  IN  IF api.raised
      THEN [messages |-> m1, raised |-> TRUE, text |-> "", returned |-> <<>>]
      ELSE LET assistant_message == api.value.output.message.content[1].text
               m2 == Append(m1, Message("assistant", assistant_message))
           IN  [messages |-> m2, raised |-> FALSE, text |-> assistant_message, returned |-> m2]

\* the state converse_with_history does not touch
nonChat == <<serverVars, inflight, endpointVars, streamVars, invokeVars, trainVars>>

\* the programs other than bedrock_example.py at rest
RestExceptChat == EndpointRest /\ StreamRest /\ InvokeRest /\ TrainRest

\* one call: response, conversation = converse_with_history(conversation, text)
Converse ==
  /\ okCalls + failedCalls < MaxCalls
  /\ \E user_message \in UserTexts, api \in ConverseOutcomes :
       LET o == converse_with_history(conversation, user_message, api)
       IN  /\ conversation' = o.messages
           /\ chatRet' = [raised |-> o.raised, text |-> o.text, messages |-> o.returned]
           /\ okCalls' = IF o.raised THEN okCalls ELSE okCalls + 1
           /\ failedCalls' = IF o.raised THEN failedCalls + 1 ELSE failedCalls
  /\ UNCHANGED nonChat

InitChat == ServerRest /\ ChatRest /\ RestExceptChat

NextChat == Converse

SpecChat == InitChat /\ [][NextChat]_vars

\* ------------------------------------- inference.py: delete_endpoint
\* the accounts considered: each endpoint is in service with one of the
\* configurations or absent; any of the configurations may exist
Accounts ==
  [EndpointNames ->
     {NoEndpoint} \cup [status : {"InService"}, config : ConfigNames]]

\* the state delete_endpoint does not touch
nonEndpoint == <<serverVars, inflight, chatVars, streamVars, invokeVars, trainVars>>

\* the programs other than delete_endpoint at rest
RestExceptEndpoint == ChatRest /\ StreamRest /\ InvokeRest /\ TrainRest

\* delete_endpoint(endpoint_name) is called
DeleteStart ==
  /\ del.pc = "idle"
  /\ \E name \in EndpointNames :
       del' = [NoDelete EXCEPT !.pc = "delete_endpoint", !.name = name,
                               !.config0 = endpoints[name].config]
  /\ UNCHANGED <<endpoints, configs, nonEndpoint>>

\* sm_client.delete_endpoint: the endpoint starts deleting; an error (no such
\* endpoint in service, or a service fault) leaves delete_endpoint
CallDeleteEndpoint ==
  /\ del.pc = "delete_endpoint"
  /\ \E fault \in BOOLEAN :
       IF fault \/ endpoints[del.name].status # "InService"
       THEN /\ del' = [del EXCEPT !.pc = "raised", !.failedAt = "delete_endpoint"]
            /\ UNCHANGED endpoints
       ELSE /\ endpoints' = [endpoints EXCEPT ![del.name].status = "Deleting"]
            /\ del' = [del EXCEPT !.pc = "describe_endpoint"]
  /\ UNCHANGED <<configs, nonEndpoint>>

\* sm_client.describe_endpoint(...)["EndpointConfigName"], inside try
CallDescribeEndpoint ==
  /\ del.pc = "describe_endpoint"
  /\ \E fault \in BOOLEAN :
       IF fault \/ endpoints[del.name].status = "absent"
       THEN del' = [del EXCEPT !.pc = "done", !.failedAt = "describe_endpoint"]
       ELSE del' = [del EXCEPT !.pc = "delete_endpoint_config",
                               !.endpoint_config = endpoints[del.name].config]
  /\ UNCHANGED <<endpoints, configs, nonEndpoint>>

\* the deletion of the configuration without the try/except around it
CallDeleteEndpointConfig_uncaught ==
  /\ del.pc = "delete_endpoint_config"
  /\ \E fault \in BOOLEAN :
       IF fault \/ del.endpoint_config \notin configs
       THEN /\ del' = [del EXCEPT !.pc = "raised", !.failedAt = "delete_endpoint_config"]
            /\ UNCHANGED configs
       ELSE /\ configs' = configs \ {del.endpoint_config}
            /\ del' = [del EXCEPT !.pc = "done"]
  /\ UNCHANGED <<endpoints, nonEndpoint>>

\* sm_client.delete_endpoint_config, inside try; except: pass
CallDeleteEndpointConfig ==
  /\ del.pc = "delete_endpoint_config"
  /\ \E fault \in BOOLEAN :
       IF fault \/ del.endpoint_config \notin configs
       THEN /\ del' = [del EXCEPT !.pc = "done", !.failedAt = "delete_endpoint_config"]
            /\ UNCHANGED configs
       ELSE /\ configs' = configs \ {del.endpoint_config}
            /\ del' = [del EXCEPT !.pc = "done"]
  /\ UNCHANGED <<endpoints, nonEndpoint>>

\* delete_endpoint has returned or raised; the caller may call it again
DeleteReturn ==
  /\ del.pc \in {"done", "raised"}
  /\ del' = NoDelete
  /\ UNCHANGED <<endpoints, configs, nonEndpoint>>

\* the service finishes deleting an endpoint
EndpointGone ==
  /\ \E e \in EndpointNames :
       /\ endpoints[e].status = "Deleting"
       /\ endpoints' = [endpoints EXCEPT ![e] = NoEndpoint]
  /\ UNCHANGED <<configs, del, nonEndpoint>>

InitEndpoint ==
  /\ ServerRest
  /\ RestExceptEndpoint
  /\ endpoints \in Accounts
  /\ configs \in SUBSET ConfigNames
  /\ del = NoDelete

NextEndpoint ==
  \/ DeleteStart
  \/ CallDeleteEndpoint
  \/ CallDescribeEndpoint
  \/ CallDeleteEndpointConfig
  \/ DeleteReturn
  \/ EndpointGone

SpecEndpoint == InitEndpoint /\ [][NextEndpoint]_vars

\* ------------------- bedrock_examples.py: invoke_model_with_streaming
\* longest event stream considered
MaxEvents == 3

\* the events of a response stream: with or without a chunk, the chunk's
\* type, and for a content_block_delta the type and the text of its delta
Events ==
  {[chunk |-> FALSE, type |-> "", delta_type |-> "", text |-> ""]} \cup
  [chunk : {TRUE}, type : {"message_start"}, delta_type : {""}, text : {""}] \cup
  [chunk : {TRUE}, type : {"content_block_delta"}, delta_type : {"input_json_delta"},
   text : {""}] \cup
  [chunk : {TRUE}, type : {"content_block_delta"}, delta_type : {"text_delta"},
   text : {"Hel", "lo"}]

Streams == UNION {[1 .. n -> Events] : n \in 0 .. MaxEvents}

\* what invoke_model_with_response_stream can return
Responses == {NoStream} \cup [body : {TRUE}, events : Streams]

\* the loop body testing only the chunk type, not the type of the delta
yield_of_any_delta(event) ==
  IF event.chunk
  THEN IF event.type = "content_block_delta" THEN <<event.text>> ELSE <<>>
  ELSE <<>>

\* the body of the loop over the stream: what one event makes the generator yield
yield_of(event) ==
  IF event.chunk
  THEN IF event.type = "content_block_delta"
       THEN IF event.delta_type = "text_delta" THEN <<event.text>> ELSE <<>>
       ELSE <<>>
  ELSE <<>>

\* the state invoke_model_with_streaming does not touch
nonStream == <<serverVars, inflight, chatVars, endpointVars, invokeVars, trainVars>>

\* the programs other than invoke_model_with_streaming at rest
RestExceptStream == ChatRest /\ EndpointRest /\ InvokeRest /\ TrainRest

\* the generator takes the next event of the stream
StreamNext ==
  /\ response.body
  /\ streamPos <= Len(response.events)
  /\ yielded' = yielded \o yield_of(response.events[streamPos])
  /\ streamPos' = streamPos + 1
  /\ UNCHANGED <<response, nonStream>>

InitStream ==
  /\ ServerRest
  /\ RestExceptStream
  /\ response \in Responses
  /\ streamPos = 1
  /\ yielded = <<>>

NextStream == StreamNext

SpecStream == InitStream /\ [][NextStream]_vars

\* ------------------------------------- inference.py: invoke_endpoint
\* largest arrays considered
MaxRows == 2
MaxCols == 2
\* cap of the number of calls of invoke_endpoint in one run
MaxInvokes == 2

\* the float64 entries considered, counted in halves: 0.5, 1.0, 1.5
FloatVals == {1, 2, 3}

\* str(x) of a float64 entry
str(v) == ToString(v \div 2) \o "." \o (IF v % 2 = 0 THEN "0" ELSE "5")

\* sep.join(strs)
RECURSIVE join(_, _)
join(sep, strs) ==
  IF strs = <<>> THEN ""
  ELSE IF Len(strs) = 1 THEN strs[1]
  ELSE strs[1] \o sep \o join(sep, Tail(strs))

Array1D(vals) == [kind |-> "ndarray", ndim |-> 1, rows |-> <<vals>>, text |-> ""]
Array2D(rows) == [kind |-> "ndarray", ndim |-> 2, rows |-> rows, text |-> ""]

Vectors == UNION {[1 .. c -> FloatVals] : c \in 0 .. MaxCols}

Matrices ==
  UNION {[1 .. r -> [1 .. c -> FloatVals]] : r \in 0 .. MaxRows, c \in 0 .. MaxCols}

\* the data invoke_endpoint is called with
Inputs ==
  {Array1D(v) : v \in Vectors} \cup {Array2D(m) : m \in Matrices}
    \cup {RawData(t) : t \in {"1.0,2.0", "raw"}}

\* the rows of an array: a one-dimensional array is reshaped to one row
rows_of(data) == IF data.ndim = 1 THEN reshape(data.rows[1]) ELSE data.rows

\* the payload with all entries on one line
payload_of_flat(data) ==
  IF data.kind = "ndarray"
  THEN join(",", [i \in 1 .. Len(rows_of(data)) |->
                    join(",", [j \in 1 .. Len(rows_of(data)[i]) |-> str(rows_of(data)[i][j])])])
  ELSE data.text

\* the conversion of the data to the payload
payload_of(data) ==
  IF data.kind = "ndarray"
  THEN join("\n", [i \in 1 .. Len(rows_of(data)) |->
                     join(",", [j \in 1 .. Len(rows_of(data)[i]) |-> str(rows_of(data)[i][j])])])
  ELSE data.text

\* the state invoke_endpoint does not touch
nonInvoke == <<serverVars, inflight, chatVars, endpointVars, streamVars, trainVars>>

\* the programs other than invoke_endpoint at rest
RestExceptInvoke == ChatRest /\ EndpointRest /\ StreamRest /\ TrainRest

\* one call of invoke_endpoint(endpoint_name, data) with the caller's data
InvokeEndpoint ==
  /\ smCalls < MaxInvokes
  /\ smBody' = payload_of(smData)
  /\ smCalls' = smCalls + 1
  /\ invocations' = invocations + 1
  /\ UNCHANGED <<smData, nonInvoke>>

InitInvoke ==
  /\ ServerRest
  /\ RestExceptInvoke
  /\ smData \in Inputs
  /\ smBody = ""
  /\ smCalls = 0
  /\ invocations = 0

NextInvoke == InvokeEndpoint

SpecInvoke == InitInvoke /\ [][NextInvoke]_vars

\* ------------------------------------------------------- train_script.py
\* accuracies are counted in units of 1 / AccSteps
AccSteps == 2

\* the containers considered: each input file and output directory is
\* present or missing
TrainEnvs == [train_csv : BOOLEAN, test_csv : BOOLEAN, output_dir : BOOLEAN, model_dir : BOOLEAN]

\* the state the training script does not touch
nonTrain == <<serverVars, inflight, chatVars, endpointVars, streamVars, invokeVars>>

\* the other programs at rest
RestExceptTrain == ChatRest /\ EndpointRest /\ StreamRest /\ InvokeRest

At(stage) == [at |-> stage, failedAt |-> ""]
FailedAt(stage) == [at |-> "failed", failedAt |-> stage]

\* train_model: load_data reads train.csv and test.csv
TrainLoadData ==
  /\ trainPc = At("start")
  /\ trainPc' = IF trainEnv.train_csv /\ trainEnv.test_csv THEN At("loaded")
                ELSE FailedAt("load_data")
  /\ UNCHANGED <<trainEnv, metrics, metricsFile, modelFile, nonTrain>>

\* train_model: model.fit and the evaluation on both sets
TrainFit ==
  /\ trainPc = At("loaded")
  /\ \/ /\ \E train_acc, test_acc \in 0 .. AccSteps :
             metrics' = [train_accuracy |-> train_acc, test_accuracy |-> test_acc]
        /\ trainPc' = At("evaluated")
     \/ /\ trainPc' = FailedAt("fit")
        /\ UNCHANGED metrics
  /\ UNCHANGED <<trainEnv, metricsFile, modelFile, nonTrain>>

\* the writing of the metrics where a failure is ignored and the run goes on
TrainWriteMetrics_lenient ==
  /\ trainPc = At("evaluated")
  /\ \/ /\ trainEnv.output_dir
        /\ metricsFile' = "written"
     \/ /\ ~trainEnv.output_dir
        /\ UNCHANGED metricsFile
  /\ trainPc' = At("trained")
  /\ UNCHANGED <<trainEnv, metrics, modelFile, nonTrain>>

\* train_model: open(metrics_path, "w") and json.dump(metrics, f); open
\* fails without the output directory, the dump can fail part way
TrainWriteMetrics ==
  /\ trainPc = At("evaluated")
  /\ \/ /\ trainEnv.output_dir
        /\ metricsFile' = "written"
        /\ trainPc' = At("trained")
     \/ /\ trainEnv.output_dir
        /\ metricsFile' = "partial"
        /\ trainPc' = FailedAt("metrics")
     \/ /\ ~trainEnv.output_dir
        /\ UNCHANGED metricsFile
        /\ trainPc' = FailedAt("metrics")
  /\ UNCHANGED <<trainEnv, metrics, modelFile, nonTrain>>

\* save_model: joblib.dump(model, model_dir/model.joblib)
TrainSaveModel ==
  /\ trainPc = At("trained")
  /\ IF trainEnv.model_dir
     THEN modelFile' = "written" /\ trainPc' = At("saved")
     ELSE UNCHANGED modelFile /\ trainPc' = FailedAt("save_model")
  /\ UNCHANGED <<trainEnv, metrics, metricsFile, nonTrain>>

\* print("Training complete!")
TrainComplete ==
  /\ trainPc = At("saved")
  /\ trainPc' = At("complete")
  /\ UNCHANGED <<trainEnv, metrics, metricsFile, modelFile, nonTrain>>

InitTrain ==
  /\ ServerRest
  /\ RestExceptTrain
  /\ trainEnv \in TrainEnvs
  /\ trainPc = At("start")
  /\ metrics = NoMetrics
  /\ metricsFile = "absent"
  /\ modelFile = "absent"

NextTrain ==
  \/ TrainLoadData
  \/ TrainFit
  \/ TrainWriteMetrics
  \/ TrainSaveModel
  \/ TrainComplete

SpecTrain == InitTrain /\ [][NextTrain]_vars

TypeOK ==
  /\ artifact \in Artifacts
  /\ model \in {None} \cup Forests
  /\ phase \in {"created", "serving", "exited"}
  /\ loads \in 0 .. 1
  /\ failed \in 0 .. MaxFailed
  /\ resp.status \in {0, 200, 400, 422, 503}

\* ------------------------------------------------------------- properties
\* the last request was a POST /invocations that carried a feature vector
SentVector == req.method = "POST" /\ req.path = "/invocations" /\ req.body.valid

\* ... and the vector has the length the loaded model expects
SentAcceptedVector ==
  /\ SentVector
  /\ model # None
  /\ Len(req.body.features) = model.n_features_in_

\* C1: while the Model Holder is empty, every POST /invocations that carries
\* a feature vector (of the right length, of a wrong length or empty) is
\* answered with 503 "Model not loaded", never with a prediction or with 400.
C1_EmptyHolderUnavailable ==
  (model = None /\ SentVector) => resp = HTTPException(503, "Model not loaded")

C1_Witness ==
  /\ model = None
  /\ SentVector
  /\ Len(req.body.features) = NFeatures
  /\ resp.status = 503

\* C2: GET /ping answers healthy exactly when the Model Holder is non-empty,
\* and answers 503 when it is empty.
C2_PingHealthyIffLoaded ==
  (req.method = "GET" /\ req.path = "/ping") =>
    /\ (resp = OK([status |-> "healthy"])) <=> (model # None)
    /\ (model = None) => (resp.status = 503)

C2_Witness ==
  /\ req.path = "/ping"
  /\ model # None
  /\ resp.status = 200

\* C3: with a loaded model, a feature vector whose length differs from the
\* model's expected dimensionality is answered with 400; the model's
\* exception does not leave the handler (no internal-error response).
C3_WrongLengthBadInput ==
  (SentVector /\ model # None /\ Len(req.body.features) # model.n_features_in_) =>
    /\ resp.status = 400
    /\ resp.body.detail # ""

C3_Witness ==
  /\ SentVector
  /\ model # None
  /\ Len(req.body.features) = model.n_features_in_ + 1
  /\ resp.status = 400

C5_HolderFrozen == [][(phase = "serving") => (model' = model)]_vars

C5_Witness ==
  /\ phase = "serving"
  /\ model # None
  /\ model = artifact
  /\ SentVector
  /\ failed > 0

\* C6 as stated: every error outcome of a request is 503 or 400.
C6_OnlyTwoErrorKinds == IsError(resp) => resp.status \in {503, 400}

\* C6 amended: an error outcome is 503 (holder empty), 400 (the model call
\* failed) or 422, the framework's rejection of a POST /invocations body
\* that is not a PredictionRequest; 503 and 400 carry their message.
C6_ThreeErrorKinds ==
  IsError(resp) =>
    /\ resp.status \in {503, 400, 422}
    /\ (resp.status = 422) <=> (req.path = "/invocations" /\ ~req.body.valid)
    /\ (resp.status = 503) => (model = None /\ resp.body.detail = "Model not loaded")
    /\ (resp.status = 400) =>
          /\ model # None
          /\ SentVector
          /\ resp.body.detail # ""

C6_Witness ==
  /\ req.path = "/invocations"
  /\ ~req.body.valid
  /\ resp.status = 422

\* C7: failed requests do not stop the process, and when the artifact was a
\* classifier a vector of the expected length sent after failed requests is
\* still answered with a prediction.
C7_FailuresNotFatal ==
  /\ (failed > 0) => (phase = "serving")
  /\ (failed > 0 /\ artifact \in Forests /\ SentVector
        /\ Len(req.body.features) = artifact.n_features_in_) =>
       resp.status = 200

C7_Witness ==
  /\ failed = MaxFailed
  /\ SentAcceptedVector
  /\ resp.status = 200

\* C8: with a loaded model and an accepted vector, the response carries the
\* label model.predict gives and the probabilities model.predict_proba gives
\* for the vector taken as a single row.
C8_PredictionFromModel ==
  SentAcceptedVector =>
    resp = OK([prediction |-> model_predict(model, <<req.body.features>>).value[1],
               probability |-> model_predict_proba(model, <<req.body.features>>).value[1]])

C8_Witness ==
  /\ SentAcceptedVector
  /\ resp.status = 200
  /\ resp.body.prediction = NClasses - 1

\* C9: for an accepted vector the probability sequence has one entry per
\* class and sums to 1.0; probabilities are counted in units of
\* 1 / n_estimators, a unit is larger than 1e-6, so the sum is exact.
C9_ProbabilitiesNormalised ==
  SentAcceptedVector =>
    /\ Len(resp.body.probability) = Len(model.classes_)
    /\ SumSeq(resp.body.probability) = Len(model.estimators_)

C9_Witness ==
  /\ SentAcceptedVector
  /\ resp.status = 200
  /\ \E c \in 1 .. NClasses :
       resp.body.probability[c] > 0 /\ resp.body.probability[c] < NEstimators

\* C10 as stated: a prediction request makes a single call to the model.
C10_SingleModelCall == SentVector => Len(calls) <= 1

\* C10 amended: a prediction request calls predict once and, only when that
\* succeeded, predict_proba once, each on the single row; no method is
\* called twice, and after a failed call no further call is made.
C10_OneCallPerMethod ==
  SentVector =>
    /\ \A i \in 1 .. Len(calls) : calls[i].rows = 1
    /\ \A i, j \in 1 .. Len(calls) : (calls[i].fn = calls[j].fn) => (i = j)
    /\ (model = None) => (calls = <<>>)
    /\ (resp.status = 400) => (calls = <<[fn |-> "predict", rows |-> 1]>>)
    /\ (resp.status = 200) =>
          (calls = <<[fn |-> "predict", rows |-> 1], [fn |-> "predict_proba", rows |-> 1]>>)

C10_Witness ==
  /\ SentVector
  /\ resp.status = 400
  /\ Len(calls) = 1

\* C11: GET / answers with the same static payload whether the Model Holder
\* is loaded or empty, and never with an error.
C11_RootStatic ==
  (req.method = "GET" /\ req.path = "/") =>
    resp = [status |-> 200,
            body |-> [message |-> "SageMaker Inference API", docs |-> "/docs"]]

C11_Witness ==
  /\ req.path = "/"
  /\ model = None
  /\ failed > 0
  /\ resp.status = 200

\* the response a POST /invocations with the vector f gets from the holder m
\* when it is the only request handled
Alone(m, f) == predict(m, [features |-> f]).resp

\* C12: requests are stateless: whatever was served before, the response to
\* a feature vector is the one the holder gives to that vector alone, and a
\* request repeating the features of the previous one gets the same response.
C12_Stateless ==
  /\ [](SentVector => resp = Alone(model, req.body.features))
  /\ [][(SentVector /\ SentVector' /\ req'.body.features = req.body.features)
          => resp' = resp]_vars

C12_Witness ==
  /\ SentVector
  /\ failed = MaxFailed
  /\ model # None
  /\ resp.status = 200
  /\ resp.body.prediction = 0

\* C14: with a loaded model, a request whose feature vector is empty is
\* answered with the bad-input error 400, never with a prediction.
C14_EmptyVectorBadInput ==
  (SentVector /\ model # None /\ req.body.features = <<>>) =>
    /\ resp.status = 400
    /\ resp.body.detail # ""

C14_Witness ==
  /\ SentVector
  /\ model # None
  /\ req.body.features = <<>>
  /\ resp.status = 400
  /\ calls = <<[fn |-> "predict", rows |-> 1]>>

\* the response the request held by handler h gets when it is handled alone
AloneResponse(h) ==
  IF inflight[h].path = "/ping" THEN health_check(model)
  ELSE IF inflight[h].path = "/" THEN root
  ELSE IF ~inflight[h].body.valid THEN HTTPException(422, "validation error")
  ELSE Alone(model, inflight[h].body.features)

\* C13: under every interleaving of the steps of concurrently handled
\* requests, no step of a request changes the shared state (the holder, the
\* artifact, the process phase, the load count), and every finished request
\* carries the response it gets when handled alone; no lock is taken.
C13_InterleavingSafe ==
  /\ [](\A h \in Handlers :
          inflight[h].pc = "done" => inflight[h].resp = AloneResponse(h))
  /\ [][(phase = "serving") => UNCHANGED <<artifact, model, phase, loads>>]_vars

C13_Witness ==
  /\ inflight["h1"].pc = "done"
  /\ inflight["h1"].resp.status = 200
  /\ inflight["h1"].path = "/invocations"
  /\ inflight["h2"].pc = "proba"
  /\ inflight["h2"].prediction # inflight["h1"].prediction

\* the roles of the history alternate user, assistant, user, ...
Alternates(h) ==
  \A i \in 1 .. Len(h) : h[i].role = (IF i % 2 = 1 THEN "user" ELSE "assistant")

\* C15: a successful call of converse_with_history keeps the earlier entries
\* in place and appends two entries, the user message and then the assistant
\* reply, and returns that same history; from an empty history, after n
\* successful calls (and no failed one) there are 2n alternating entries.
C15_HistoryMaintained ==
  /\ [][(okCalls' = okCalls + 1) =>
          /\ Len(conversation') = Len(conversation) + 2
          /\ SubSeq(conversation', 1, Len(conversation)) = conversation
          /\ conversation'[Len(conversation) + 1].role = "user"
          /\ conversation'[Len(conversation) + 2] = Message("assistant", chatRet'.text)
          /\ chatRet'.messages = conversation']_vars
  /\ []((failedCalls = 0) =>
          (Len(conversation) = 2 * okCalls /\ Alternates(conversation)))

C15_Witness ==
  /\ okCalls = 2
  /\ failedCalls = 0
  /\ Len(conversation) = 4
  /\ conversation[3].content[1].text = "How does it compare to EC2?"

\* C16: when the Converse call inside converse_with_history fails, the
\* caller's history list is left as it was before the call (so that a retry
\* of the same user message keeps the history alternating).
C16_FailureKeepsHistory ==
  [][(failedCalls' = failedCalls + 1) => (conversation' = conversation)]_vars

CarriesText(e) == e.chunk /\ e.type = "content_block_delta" /\ e.delta_type = "text_delta"

RECURSIVE TextsOf(_)
TextsOf(es) ==
  IF es = <<>> THEN <<>>
  ELSE (IF CarriesText(Head(es)) THEN <<Head(es).text>> ELSE <<>>) \o TextsOf(Tail(es))

\* C18: the generator yields, in stream order, the texts of exactly the
\* events that carry a text_delta in a content_block_delta chunk; the other
\* events yield nothing, and a response without body yields nothing.
C18_StreamYieldsTextDeltas ==
  /\ (~response.body) => (yielded = <<>>)
  /\ response.body =>
       yielded = TextsOf(SubSeq(response.events, 1, streamPos - 1))
  /\ Len(yielded) =
       Cardinality({i \in 1 .. (streamPos - 1) : CarriesText(response.events[i])})

C18_Witness ==
  /\ response.body
  /\ Len(response.events) = MaxEvents
  /\ streamPos = MaxEvents + 1
  /\ response.events[1].delta_type = "text_delta"
  /\ response.events[2].delta_type = "input_json_delta"
  /\ ~response.events[3].chunk
  /\ Len(yielded) = 1

\* one CSV line: the entries of a row, each followed by a comma except the last
RECURSIVE CsvLine(_)
CsvLine(row) ==
  IF row = <<>> THEN ""
  ELSE IF Len(row) = 1 THEN str(row[1])
  ELSE CsvLine(SubSeq(row, 1, Len(row) - 1)) \o "," \o str(row[Len(row)])

\* the lines of the rows, in row order, each after the first on a new line
RECURSIVE CsvLines(_)
CsvLines(rows) ==
  IF rows = <<>> THEN ""
  ELSE IF Len(rows) = 1 THEN CsvLine(rows[1])
  ELSE CsvLines(SubSeq(rows, 1, Len(rows) - 1)) \o "\n" \o CsvLine(rows[Len(rows)])

\* C19: invoke_endpoint sends a one-dimensional array as one line of its
\* comma-separated entries, a two-dimensional array of n rows as n lines in
\* row order separated by newlines, and data that is not an array unchanged;
\* every call makes one endpoint invocation.
C19_CsvPayload ==
  /\ invocations = smCalls
  /\ (smCalls > 0 /\ smData.kind = "ndarray" /\ smData.ndim = 1) =>
        smBody = CsvLine(smData.rows[1])
  /\ (smCalls > 0 /\ smData.kind = "ndarray" /\ smData.ndim = 2) =>
        smBody = CsvLines(smData.rows)
  /\ (smCalls > 0 /\ smData.kind # "ndarray") => smBody = smData.text

C19_Witness ==
  /\ smCalls = 1
  /\ invocations = 1
  /\ smData = Array2D(<<<<2, 3>>, <<1, 2>>>>)
  /\ smBody = "1.0,1.5\n0.5,1.0"

\* C20: the script writes metrics.json and then model.joblib: the model
\* artifact is written only once the metrics file is written, a run that
\* reaches "Training complete" has written both, and a run that fails before
\* or while writing the metrics has written no model artifact.
C20_MetricsBeforeModel ==
  /\ []((modelFile = "written") => (metricsFile = "written"))
  /\ []((trainPc.at = "complete") => (metricsFile = "written" /\ modelFile = "written"))
  /\ []((trainPc.failedAt \in {"load_data", "fit", "metrics"}) => (modelFile = "absent"))
  /\ [][(modelFile' # modelFile) => (metricsFile = "written" /\ metricsFile' = "written")]_vars

C20_Witness ==
  /\ trainPc.at = "complete"
  /\ metricsFile = "written"
  /\ modelFile = "written"
  /\ metrics.test_accuracy = 1
====
